---- MODULE Spec2Model ----
(***************************************************************************)
(* Model of include/net/sch_testbed.h: the mini-float codec (fl2int,       *)
(* int2fl), the drop accumulator (struct testbed_metrics and its three     *)
(* operations) and the IPv4 embedding of the two codewords into the        *)
(* identification field with its incremental checksum repair.              *)
(*                                                                         *)
(* A u32 is kept as a pair of 16-bit halves [hi, lo], so that every        *)
(* operation keeps the exact 32-bit width of the C code (wrap-around of    *)
(* "check -= id", remainders of delays above 2^31).                        *)
(***************************************************************************)
EXTENDS Integers, Sequences, FiniteSets

VARIABLES
    cpc,        \* codec harness: "input", "encoded", "decoded"
    val,        \* codec harness: the u32 handed to int2fl
    par,        \* codec harness: the (m_b, e_b) pair in use
    enc,        \* codec harness: what int2fl returned, [fl, r]
    dec,        \* codec harness: what fl2int returned for enc.fl
    testbed,    \* struct testbed_metrics: [drops_ecn, drops_nonecn], u16 each
    last,       \* history: the latest accumulator call, its argument, the
                \* struct before it and what it returned
    prev,       \* history: the accumulator call before that
    owed,       \* history: per class, drops recorded minus the decoded value
                \* of every drop codeword reported so far
    heavy,      \* which class the scenario loads up to MaxHeavy drops
    ncalls,     \* number of accumulator calls so far (bounded scenarios)
    skb,        \* the packet at the head of the queue: [protocol,
                \* network_offset, len, cow_fails, hdr], hdr the bytes at
                \* the network header
    ppc,        \* "queued": not yet handed to testbed_add_metrics; "sent"
    inj,        \* history: the arguments of the latest testbed_add_metrics
                \* call, [skb, testbed, qdelay_us]
    host_le,    \* the byte order of the build: TRUE for little endian
    npkts       \* packets dequeued so far (bounded scenarios)

codecVars == <<cpc, val, par, enc, dec>>
accVars == <<testbed, last, prev, owed, heavy, ncalls>>
pktVars == <<skb, ppc, inj, host_le, npkts>>
vars == <<codecVars, accVars, pktVars>>

(***************************************************************************)
(* Bounds of the model.                                                    *)
(***************************************************************************)
\* inputs 0..MaxDense are all enumerated (covers the direct range and the
\* first normalized binades of the (2,3) codec)
MaxDense == 40
\* the accumulator scenario records at most MaxHeavy drops in one class
\* (beyond the (2,3) saturation point 448) and MaxLight in the other
MaxHeavy == 450
MaxLight == 4
\* accumulator calls made from an arbitrary accumulator state
MaxCalls == 2
\* packets handed to testbed_add_metrics in a row
MaxPkts == 2

(***************************************************************************)
(* Program constants.                                                      *)
(***************************************************************************)
DROPS_M == 2
DROPS_E == 3
QDELAY_M == 7
QDELAY_E == 4
INET_ECN_NOT_ECT == 0
INET_ECN_MASK == 3
ETH_P_IP == 2048
ETH_P_IPV6 == 34525
IPHDR_LEN == 20
IPV6HDR_LEN == 40
\* byte offsets of tos, id and check in struct iphdr
IPH_TOS == 1
IPH_ID == 4
IPH_CHECK == 10

(***************************************************************************)
(* 16- and 32-bit unsigned arithmetic.                                     *)
(***************************************************************************)
W16 == 65536

RECURSIVE BitAnd(_, _)
BitAnd(x, y) ==
    IF x = 0 \/ y = 0 THEN 0
    ELSE (x % 2) * (y % 2) + 2 * BitAnd(x \div 2, y \div 2)

RECURSIVE BitOr(_, _)
BitOr(x, y) ==
    IF x = 0 THEN y
    ELSE IF y = 0 THEN x
    ELSE (IF x % 2 = 1 \/ y % 2 = 1 THEN 1 ELSE 0)
         + 2 * BitOr(x \div 2, y \div 2)

\* a u32 from a natural number below 2^31
u32(n) == [hi |-> (n \div W16) % W16, lo |-> n % W16]

\* the natural number of a u32 below 2^31
ToNat(a) == a.hi * W16 + a.lo

U32Max == [hi |-> W16 - 1, lo |-> W16 - 1]

Lt32(a, b) == a.hi < b.hi \/ (a.hi = b.hi /\ a.lo < b.lo)

Add32(a, b) ==
    LET lo == a.lo + b.lo
        hi == a.hi + b.hi + (lo \div W16)
    IN  [hi |-> hi % W16, lo |-> lo % W16]

Sub32(a, b) ==
    LET lo == a.lo - b.lo
        borrow == IF lo < 0 THEN 1 ELSE 0
        hi == a.hi - b.hi - borrow
    IN  [hi |-> (hi + W16) % W16, lo |-> (lo + W16) % W16]

And32(a, b) == [hi |-> BitAnd(a.hi, b.hi), lo |-> BitAnd(a.lo, b.lo)]

Or32(a, b) == [hi |-> BitOr(a.hi, b.hi), lo |-> BitOr(a.lo, b.lo)]

\* a << n on 32 bits, 0 <= n < 32
Shl32(a, n) ==
    IF n >= 16
    THEN [hi |-> (a.lo % (2 ^ (32 - n))) * (2 ^ (n - 16)), lo |-> 0]
    ELSE [hi |-> (a.hi % (2 ^ (16 - n))) * (2 ^ n) + (a.lo \div (2 ^ (16 - n))),
          lo |-> (a.lo % (2 ^ (16 - n))) * (2 ^ n)]

\* a >> n on 32 bits, 0 <= n < 32
Shr32(a, n) ==
    IF n >= 16
    THEN [hi |-> 0, lo |-> a.hi \div (2 ^ (n - 16))]
    ELSE [hi |-> a.hi \div (2 ^ n),
          lo |-> (a.lo \div (2 ^ n)) + (a.hi % (2 ^ n)) * (2 ^ (16 - n))]

RECURSIVE BitLen(_)
BitLen(x) == IF x = 0 THEN 0 ELSE 1 + BitLen(x \div 2)

\* __builtin_clz on a non-zero u32
clz(a) == IF a.hi # 0 THEN 16 - BitLen(a.hi) ELSE 32 - BitLen(a.lo)

(***************************************************************************)
(* The codec.                                                              *)
(***************************************************************************)
\* fl2int with the implicit leading one forgotten
fl2int_no_leading_one(fl, m_b, e_b) ==
    LET m_max == Shl32(u32(1), m_b)
        f == And32(fl, Sub32(Shl32(m_max, e_b), u32(1)))
    IN  IF Lt32(f, Shl32(m_max, 1))
        THEN f
        ELSE Shl32(And32(f, Sub32(m_max, u32(1))), ToNat(Shr32(f, m_b)) - 1)

fl2int(fl, m_b, e_b) ==
    LET m_max == Shl32(u32(1), m_b)
        f == And32(fl, Sub32(Shl32(m_max, e_b), u32(1)))
    IN  IF Lt32(f, Shl32(m_max, 1))
        THEN f
        ELSE Shl32(Add32(And32(f, Sub32(m_max, u32(1))), m_max),
                   ToNat(Shr32(f, m_b)) - 1)

\* int2fl without the saturation branch: the exponent of a large value
\* runs over the e_b bits of the codeword
int2fl_wrap(v, m_b, e_b) ==
    IF Lt32(v, u32(2 ^ (m_b + 1)))
    THEN [fl |-> v, r |-> u32(0)]
    ELSE LET len == 32 - clz(v) - 1
             exponent == len - m_b
             mantissa == And32(Shr32(v, exponent), u32((2 ^ m_b) - 1))
             r == And32(v, Sub32(Shl32(u32(1), exponent), u32(1)))
         IN  [fl |-> And32(Or32(Shl32(u32(exponent + 1), m_b), mantissa),
                           u32((2 ^ (m_b + e_b)) - 1)),
              r |-> r]

int2fl(v, m_b, e_b) ==
    LET max_e == (2 ^ e_b) - 1
        max_m == (2 ^ m_b) - 1
        max_fl == Shl32(u32(max_m * 2 + 1), max_e - 1)
    IN  IF Lt32(v, u32(2 ^ (m_b + 1)))
        THEN [fl |-> v, r |-> u32(0)]
        ELSE IF ~Lt32(v, max_fl)
        THEN [fl |-> u32((2 ^ (m_b + e_b)) - 1), r |-> Sub32(v, max_fl)]
        ELSE LET len == 32 - clz(v) - 1
                 exponent == len - m_b
                 mantissa == And32(Shr32(v, exponent), u32((2 ^ m_b) - 1))
                 r == And32(v, Sub32(Shl32(u32(1), exponent), u32(1)))
             IN  [fl |-> Or32(Shl32(u32(exponent + 1), m_b), mantissa),
                  r |-> r]

(***************************************************************************)
(* Codec harness: an input is drawn, encoded, and the codeword decoded.    *)
(***************************************************************************)
Params == {<<DROPS_M, DROPS_E>>, <<QDELAY_M, QDELAY_E>>}

\* the value the all-ones codeword of a parameter pair decodes to
MaxRepr(p) == fl2int(u32((2 ^ (p[1] + p[2])) - 1), p[1], p[2])

\* u32 inputs: a dense low range, the neighbourhood of each codec's direct
\* limit and saturation point, and the top of the 32-bit range
CodecVals ==
    {u32(n) : n \in 0 .. MaxDense}
    \cup {u32(n) : n \in {100, 255, 256, 257, 447, 448, 449, 511, 512, 1000,
                          65535, 65536, 4177919, 4177920, 4177921,
                          4194303, 4194304, 2147483647}}
    \cup {[hi |-> 32768, lo |-> 0], [hi |-> 32768, lo |-> 1],
          [hi |-> 65535, lo |-> 65534], U32Max}

NoEnc == [fl |-> u32(0), r |-> u32(0)]

CodecIdle ==
    /\ cpc = "input"
    /\ val = u32(0)
    /\ par = <<DROPS_M, DROPS_E>>
    /\ enc = NoEnc
    /\ dec = u32(0)

NoCall == [op |-> "none", arg |-> 0, before |-> [drops_ecn |-> 0, drops_nonecn |-> 0],
           ret |-> 0]

AccIdle ==
    /\ testbed = [drops_ecn |-> 0, drops_nonecn |-> 0]
    /\ last = NoCall
    /\ prev = NoCall
    /\ owed = [ecn |-> 0, nonecn |-> 0]
    /\ heavy = "ecn"
    /\ ncalls = 0

NoSkb == [protocol |-> 0, network_offset |-> 0, len |-> 0, cow_fails |-> FALSE,
          hdr |-> <<>>]

NoInj == [skb |-> NoSkb, testbed |-> [drops_ecn |-> 0, drops_nonecn |-> 0],
          qdelay_us |-> u32(0)]

PktIdle ==
    /\ skb = NoSkb
    /\ ppc = "sent"
    /\ inj = NoInj
    /\ host_le = TRUE
    /\ npkts = 0

InitCodec ==
    /\ cpc = "input"
    /\ val \in CodecVals
    /\ par \in Params
    /\ enc = NoEnc
    /\ dec = u32(0)
    /\ AccIdle
    /\ PktIdle

Encode ==
    /\ cpc = "input"
    /\ enc' = int2fl(val, par[1], par[2])
    /\ cpc' = "encoded"
    /\ UNCHANGED <<val, par, dec, accVars, pktVars>>

Decode ==
    /\ cpc = "encoded"
    /\ dec' = fl2int(enc.fl, par[1], par[2])
    /\ cpc' = "decoded"
    /\ UNCHANGED <<val, par, enc, accVars, pktVars>>

NextCodec == Encode \/ Decode

SpecCodec == InitCodec /\ [][NextCodec]_vars

AllOnes(p) == u32((2 ^ (p[1] + p[2])) - 1)

\* C3: for both parameter pairs and every input v, the decoded codeword plus
\* the reported remainder is exactly v (no wrap), so decoding never exceeds v.
C3_RoundTrip ==
    cpc = "decoded" =>
        /\ ~Lt32(val, dec)
        /\ Sub32(val, dec) = enc.r
        /\ Add32(dec, enc.r) = val

\* a normalized (not direct, not saturated) input with a non-zero remainder
\* has been encoded and decoded
C3_Witness ==
    /\ cpc = "decoded"
    /\ par = <<QDELAY_M, QDELAY_E>>
    /\ Lt32(val, MaxRepr(par))
    /\ enc.r # u32(0)
    /\ dec # val

\* C4: at or above the maximum representable value (448 for (2,3), 4177920
\* for (7,4)) the codeword is all ones and the remainder is v minus that
\* maximum; below it the all-ones saturation result is never produced with a
\* remainder taken against the maximum.
C4_Saturates ==
    /\ MaxRepr(<<DROPS_M, DROPS_E>>) = u32(448)
    /\ MaxRepr(<<QDELAY_M, QDELAY_E>>) = u32(4177920)
    /\ cpc # "input" =>
        IF ~Lt32(val, MaxRepr(par))
        THEN /\ enc.fl = AllOnes(par)
             /\ enc.r = Sub32(val, MaxRepr(par))
             /\ ~Lt32(val, enc.r)
        ELSE /\ Lt32(enc.fl, AllOnes(par))
             /\ Lt32(enc.r, MaxRepr(par))
             /\ enc.r # Sub32(val, MaxRepr(par))

\* a value well above 2^31 has been encoded by the (7,4) codec
C4_Witness ==
    /\ cpc = "encoded"
    /\ par = <<QDELAY_M, QDELAY_E>>
    /\ val = U32Max
    /\ enc.fl = u32(2047)

(***************************************************************************)
(* The drop accumulator.                                                   *)
(***************************************************************************)
testbed_metrics_init == [drops_ecn |-> 0, drops_nonecn |-> 0]

\* testbed_inc_drop_count that stops at the top of the u16 range
testbed_inc_drop_count_saturating(t, ect) ==
    IF ect = INET_ECN_NOT_ECT
    THEN [t EXCEPT !.drops_nonecn = IF @ = W16 - 1 THEN @ ELSE @ + 1]
    ELSE [t EXCEPT !.drops_ecn = IF @ = W16 - 1 THEN @ ELSE @ + 1]

testbed_inc_drop_count(t, ect) ==
    IF ect = INET_ECN_NOT_ECT
    THEN [t EXCEPT !.drops_nonecn = (@ + 1) % W16]
    ELSE [t EXCEPT !.drops_ecn = (@ + 1) % W16]

\* testbed_write_drops that clears the counter it has read
testbed_write_drops_reset(t, tos) ==
    IF BitAnd(tos, INET_ECN_MASK) # 0
    THEN LET e == int2fl(u32(t.drops_ecn), DROPS_M, DROPS_E)
         IN  [testbed |-> [t EXCEPT !.drops_ecn = 0], drops |-> e.fl]
    ELSE LET e == int2fl(u32(t.drops_nonecn), DROPS_M, DROPS_E)
         IN  [testbed |-> [t EXCEPT !.drops_nonecn = 0], drops |-> e.fl]

\* testbed_write_drops that only reads: the counter keeps its value
testbed_write_drops_peek(t, tos) ==
    IF BitAnd(tos, INET_ECN_MASK) # 0
    THEN [testbed |-> t, drops |-> int2fl(u32(t.drops_ecn), DROPS_M, DROPS_E).fl]
    ELSE [testbed |-> t, drops |-> int2fl(u32(t.drops_nonecn), DROPS_M, DROPS_E).fl]

\* testbed_write_drops that selects the class on the CE bit pattern only
testbed_write_drops_ce_only(t, tos) ==
    IF BitAnd(tos, INET_ECN_MASK) = INET_ECN_MASK
    THEN LET e == int2fl(u32(t.drops_ecn), DROPS_M, DROPS_E)
         IN  [testbed |-> [t EXCEPT !.drops_ecn = e.r.lo], drops |-> e.fl]
    ELSE LET e == int2fl(u32(t.drops_nonecn), DROPS_M, DROPS_E)
         IN  [testbed |-> [t EXCEPT !.drops_nonecn = e.r.lo], drops |-> e.fl]

\* the struct after the call and the u32 the call returns
testbed_write_drops(t, tos) ==
    IF BitAnd(tos, INET_ECN_MASK) # 0
    THEN LET e == int2fl(u32(t.drops_ecn), DROPS_M, DROPS_E)
         IN  [testbed |-> [t EXCEPT !.drops_ecn = e.r.lo], drops |-> e.fl]
    ELSE LET e == int2fl(u32(t.drops_nonecn), DROPS_M, DROPS_E)
         IN  [testbed |-> [t EXCEPT !.drops_nonecn = e.r.lo], drops |-> e.fl]

\* ECN field values of a dropped packet, tos bytes of a dequeued packet
EctVals == 0 .. 3
TosVals == {0, 1, 2, 3, 184, 186}

\* the class a drop or a packet belongs to
DropClass(ect) == IF ect = INET_ECN_NOT_ECT THEN "nonecn" ELSE "ecn"
TosClass(tos) == IF tos % 4 = 0 THEN "nonecn" ELSE "ecn"
Counter(t, cls) == IF cls = "ecn" THEN t.drops_ecn ELSE t.drops_nonecn

\* the value a drop codeword stands for
DropsDecoded(code) == ToNat(fl2int(u32(code), DROPS_M, DROPS_E))

IncDropCount(ect) ==
    /\ testbed' = testbed_inc_drop_count(testbed, ect)
    /\ last' = [op |-> "inc", arg |-> ect, before |-> testbed, ret |-> 0]

WriteDrops(tos) ==
    \E w \in {testbed_write_drops(testbed, tos)} :
        /\ testbed' = w.testbed
        /\ last' = [op |-> "write", arg |-> tos, before |-> testbed,
                    ret |-> ToNat(w.drops)]

(***************************************************************************)
(* The accumulator from testbed_metrics_init: drops are recorded and       *)
(* reported in any order.                                                  *)
(***************************************************************************)
InitAcc ==
    /\ CodecIdle
    /\ testbed = testbed_metrics_init
    /\ last = NoCall
    /\ prev = NoCall
    /\ owed = [ecn |-> 0, nonecn |-> 0]
    /\ heavy \in {"ecn", "nonecn"}
    /\ ncalls = 0
    /\ PktIdle

Cap(cls) == IF cls = heavy THEN MaxHeavy ELSE MaxLight

RecordDrop ==
    \E ect \in EctVals :
        /\ Counter(testbed, DropClass(ect)) < Cap(DropClass(ect))
        /\ IncDropCount(ect)
        /\ owed' = [owed EXCEPT ![DropClass(ect)] = @ + 1]
        /\ UNCHANGED <<prev, heavy, ncalls, codecVars, pktVars>>

TakeQuantized ==
    \E tos \in TosVals :
        /\ WriteDrops(tos)
        /\ owed' = [owed EXCEPT ![TosClass(tos)] = @ - DropsDecoded(last'.ret)]
        /\ UNCHANGED <<prev, heavy, ncalls, codecVars, pktVars>>

NextAcc == RecordDrop \/ TakeQuantized

SpecAcc == InitAcc /\ [][NextAcc]_vars

\* C9: for each class separately, the drops recorded equal the decoded values
\* of all drop codewords reported for that class plus the class's counter
\* (owed = recorded minus reported, kept per class).
C9_NoDropLost ==
    /\ owed.ecn = testbed.drops_ecn
    /\ owed.nonecn = testbed.drops_nonecn

\* 450 non-ECN drops were recorded, a saturated codeword has just been
\* reported for that class and the residual 2 is carried, while ECN drops
\* are pending
C9_Witness ==
    /\ last.op = "write"
    /\ TosClass(last.arg) = "nonecn"
    /\ last.ret = 31
    /\ testbed.drops_nonecn = 2
    /\ owed.nonecn = 2
    /\ testbed.drops_ecn > 0

(***************************************************************************)
(* The accumulator from any state it can be in: a few calls in any order.  *)
(***************************************************************************)
\* counter values: a dense low range, the (2,3) saturation point and the
\* top of the u16 range
AccVals == (0 .. MaxLight) \cup {100, 447, 448, 449, 900, 65534, 65535}

InitCalls ==
    /\ CodecIdle
    /\ testbed \in [drops_ecn : AccVals, drops_nonecn : AccVals]
    /\ last = NoCall
    /\ prev = NoCall
    /\ owed = [ecn |-> 0, nonecn |-> 0]
    /\ heavy = "ecn"
    /\ ncalls = 0
    /\ PktIdle

CallInc ==
    \E ect \in EctVals :
        /\ ncalls < MaxCalls
        /\ IncDropCount(ect)
        /\ prev' = last
        /\ ncalls' = ncalls + 1
        /\ UNCHANGED <<owed, heavy, codecVars, pktVars>>

CallWrite ==
    \E tos \in TosVals :
        /\ ncalls < MaxCalls
        /\ WriteDrops(tos)
        /\ prev' = last
        /\ ncalls' = ncalls + 1
        /\ UNCHANGED <<owed, heavy, codecVars, pktVars>>

NextCalls == CallInc \/ CallWrite

SpecCalls == InitCalls /\ [][NextCalls]_vars

\* C5: testbed_write_drops returns the (2,3) codeword of the counter the tos
\* byte selects and leaves the encode remainder in it, the other counter
\* untouched; a second call right after returns the codeword of the
\* residual (22 then 4 for a counter of 100).
C5_WriteConsumes ==
    last.op = "write" =>
        LET cls == TosClass(last.arg)
            other == IF cls = "ecn" THEN "nonecn" ELSE "ecn"
            c == Counter(last.before, cls)
            e == int2fl(u32(c), DROPS_M, DROPS_E)
        IN  /\ last.ret = ToNat(e.fl)
            /\ Counter(testbed, cls) = ToNat(e.r)
            /\ Counter(testbed, other) = Counter(last.before, other)
            /\ (prev.op = "write" /\ TosClass(prev.arg) = cls) =>
                   LET c0 == Counter(prev.before, cls)
                       e0 == int2fl(u32(c0), DROPS_M, DROPS_E)
                   IN  /\ c = ToNat(e0.r)
                       /\ last.ret = ToNat(int2fl(e0.r, DROPS_M, DROPS_E).fl)
                       /\ c0 = 100 => (prev.ret = 22 /\ last.ret = 4)

\* two consecutive calls on an ECN counter of 100
C5_Witness ==
    /\ prev.op = "write"
    /\ last.op = "write"
    /\ TosClass(prev.arg) = "ecn"
    /\ TosClass(last.arg) = "ecn"
    /\ prev.before.drops_ecn = 100
    /\ prev.ret # last.ret
    /\ testbed.drops_ecn = 0

\* C8: testbed_inc_drop_count adds one modulo 2^16 to the counter of the
\* given class (non-ECN for NOT_ECT, ECN otherwise) and leaves the other
\* counter alone; 65535 wraps to 0.
C8_IncWraps ==
    last.op = "inc" =>
        LET cls == IF last.arg = 0 THEN "nonecn" ELSE "ecn"
            other == IF cls = "ecn" THEN "nonecn" ELSE "ecn"
            c == Counter(last.before, cls)
        IN  /\ Counter(testbed, cls) = IF c = 65535 THEN 0 ELSE c + 1
            /\ Counter(testbed, other) = Counter(last.before, other)

\* the ECN counter has just wrapped from 65535 to 0
C8_Witness ==
    /\ last.op = "inc"
    /\ last.arg = 2
    /\ last.before.drops_ecn = 65535
    /\ testbed.drops_ecn = 0

(***************************************************************************)
(* Draining: from any accumulator state, packets of both classes keep      *)
(* being dequeued and no drop is recorded any more.                        *)
(***************************************************************************)
\* counters to drain: empty, direct, normalized, just saturated, full
DrainVals == {0, 7, 100, 449, 65535}

InitDrain ==
    /\ CodecIdle
    /\ testbed \in {t \in [drops_ecn : DrainVals, drops_nonecn : DrainVals] :
                        t.drops_ecn <= 7 \/ t.drops_nonecn <= 7}
    /\ last = NoCall
    /\ prev = NoCall
    /\ owed = [ecn |-> 0, nonecn |-> 0]
    /\ heavy = "ecn"
    /\ ncalls = 0
    /\ PktIdle

DrainEcn ==
    \E tos \in {t \in TosVals : TosClass(t) = "ecn"} :
        /\ WriteDrops(tos)
        /\ UNCHANGED <<prev, owed, heavy, ncalls, codecVars, pktVars>>

DrainNonEcn ==
    \E tos \in {t \in TosVals : TosClass(t) = "nonecn"} :
        /\ WriteDrops(tos)
        /\ UNCHANGED <<prev, owed, heavy, ncalls, codecVars, pktVars>>

NextDrain == DrainEcn \/ DrainNonEcn

SpecDrain ==
    /\ InitDrain
    /\ [][NextDrain]_vars
    /\ WF_vars(DrainEcn)
    /\ WF_vars(DrainNonEcn)

\* C10: with no further testbed_inc_drop_count, every testbed_write_drops on
\* a non-zero counter returns a non-zero codeword and leaves a strictly
\* smaller counter; a call on a zero counter returns 0 and leaves 0; and
\* both counters are eventually 0 for good.
C10_ResidualDrains ==
    /\ [](last.op = "write" =>
            LET cls == TosClass(last.arg)
                c == Counter(last.before, cls)
            IN  IF c # 0
                THEN last.ret # 0 /\ Counter(testbed, cls) < c
                ELSE last.ret = 0 /\ Counter(testbed, cls) = 0)
    /\ <>[](testbed.drops_ecn = 0 /\ testbed.drops_nonecn = 0)

\* an ECN counter of 65535 has been drained by 146 saturated calls and two
\* normalized ones down to 1 (65535 = 146 * 448 + 112 + 14 + 1)
C10_Witness ==
    /\ last.op = "write"
    /\ TosClass(last.arg) = "ecn"
    /\ last.before.drops_ecn = 15
    /\ last.ret = 11
    /\ testbed.drops_ecn = 1

(***************************************************************************)
(* The IPv4 embedding and the dispatch.                                    *)
(***************************************************************************)
swab16(x) == (x % 256) * 256 + (x \div 256)

\* ntohs and htons of a build of the given byte order
ntohs(x, le) == IF le THEN swab16(x) ELSE x
htons(x, le) == IF le THEN swab16(x) ELSE x

\* a 16-bit field of the header as the host reads and writes it
Load16(hdr, off, le) ==
    IF le THEN hdr[off + 1] + 256 * hdr[off + 2]
    ELSE 256 * hdr[off + 1] + hdr[off + 2]

Store16(hdr, off, v, le) ==
    [hdr EXCEPT ![off + 1] = IF le THEN v % 256 ELSE v \div 256,
                ![off + 2] = IF le THEN v \div 256 ELSE v % 256]

\* testbed_add_metrics_ipv4 without the carry adjustment after "check -= id"
testbed_add_metrics_ipv4_no_carry(hdr, t, qdelay, le) ==
    LET sum == ntohs(Load16(hdr, IPH_CHECK, le), le)
               + ntohs(Load16(hdr, IPH_ID, le), le)
        check1 == IF (sum + 1) \div W16 # 0
                  THEN BitAnd(sum + 1, W16 - 1)
                  ELSE sum
        w == testbed_write_drops(t, hdr[IPH_TOS + 1])
        drops == w.drops.lo
        id == BitOr(qdelay, drops * (2 ^ 11)) % W16
        check2 == Sub32(u32(check1), u32(id))
    IN  [hdr |-> Store16(Store16(hdr, IPH_ID, htons(id, le), le),
                         IPH_CHECK, htons(check2.lo, le), le),
         testbed |-> w.testbed]

\* testbed_add_metrics_ipv4 with the drop codeword shifted by 10, onto the
\* top bit of the delay codeword
testbed_add_metrics_ipv4_shift10(hdr, t, qdelay, le) ==
    LET sum == ntohs(Load16(hdr, IPH_CHECK, le), le)
               + ntohs(Load16(hdr, IPH_ID, le), le)
        check1 == IF (sum + 1) \div W16 # 0
                  THEN BitAnd(sum + 1, W16 - 1)
                  ELSE sum
        w == testbed_write_drops(t, hdr[IPH_TOS + 1])
        drops == w.drops.lo
        id == BitOr(qdelay, drops * (2 ^ 10)) % W16
        check2 == Sub32(u32(check1), u32(id))
        check3 == Add32(check2, Shr32(check2, 16))
    IN  [hdr |-> Store16(Store16(hdr, IPH_ID, htons(id, le), le),
                         IPH_CHECK, htons(check3.lo, le), le),
         testbed |-> w.testbed]

\* the header and the struct after the call
testbed_add_metrics_ipv4(hdr, t, qdelay, le) ==
    LET sum == ntohs(Load16(hdr, IPH_CHECK, le), le)
               + ntohs(Load16(hdr, IPH_ID, le), le)
        check1 == IF (sum + 1) \div W16 # 0
                  THEN BitAnd(sum + 1, W16 - 1)
                  ELSE sum
        w == testbed_write_drops(t, hdr[IPH_TOS + 1])
        drops == w.drops.lo
        id == BitOr(qdelay, drops * (2 ^ 11)) % W16
        check2 == Sub32(u32(check1), u32(id))
        check3 == Add32(check2, Shr32(check2, 16))
    IN  [hdr |-> Store16(Store16(hdr, IPH_ID, htons(id, le), le),
                         IPH_CHECK, htons(check3.lo, le), le),
         testbed |-> w.testbed]

skb_network_offset(p) == p.network_offset
skb_protocol(p) == p.protocol
pskb_may_pull(p, len) == len <= p.len
\* non-zero (TRUE) when the header cannot be made writable
skb_try_make_writable(p, len) == p.cow_fails

\* testbed_add_metrics that embeds without asking skb_try_make_writable
testbed_add_metrics_no_writable_check(p, t, qdelay_us, le) ==
    LET wlen == skb_network_offset(p)
        qdelay == int2fl(qdelay_us, QDELAY_M, QDELAY_E).fl.lo
    IN  IF skb_protocol(p) = ETH_P_IP
        THEN IF ~pskb_may_pull(p, wlen + IPHDR_LEN)
             THEN [skb |-> p, testbed |-> t]
             ELSE LET r == testbed_add_metrics_ipv4(p.hdr, t, qdelay, le)
                  IN  [skb |-> [p EXCEPT !.hdr = r.hdr], testbed |-> r.testbed]
        ELSE [skb |-> p, testbed |-> t]

\* the packet and the struct after the call
testbed_add_metrics(p, t, qdelay_us, le) ==
    LET wlen == skb_network_offset(p)
        qdelay == int2fl(qdelay_us, QDELAY_M, QDELAY_E).fl.lo
    IN  IF skb_protocol(p) = ETH_P_IP
        THEN IF \/ ~pskb_may_pull(p, wlen + IPHDR_LEN)
                \/ skb_try_make_writable(p, wlen + IPHDR_LEN)
             THEN [skb |-> p, testbed |-> t]
             ELSE LET r == testbed_add_metrics_ipv4(p.hdr, t, qdelay, le)
                  IN  [skb |-> [p EXCEPT !.hdr = r.hdr], testbed |-> r.testbed]
        ELSE IF skb_protocol(p) = ETH_P_IPV6
        THEN IF \/ ~pskb_may_pull(p, wlen + IPV6HDR_LEN)
                \/ skb_try_make_writable(p, wlen + IPV6HDR_LEN)
             THEN [skb |-> p, testbed |-> t]
             ELSE [skb |-> p, testbed |-> t]
        ELSE [skb |-> p, testbed |-> t]

(***************************************************************************)
(* The IPv4 header checksum as a receiver verifies it (RFC 791, RFC 1071): *)
(* the one's-complement sum of the big-endian 16-bit words of the header.  *)
(***************************************************************************)
Word(hdr, i) == 256 * hdr[2 * i + 1] + hdr[2 * i + 2]

RECURSIVE SumWords(_, _)
SumWords(hdr, n) == IF n = 0 THEN 0 ELSE Word(hdr, n - 1) + SumWords(hdr, n - 1)

RECURSIVE Fold(_)
Fold(x) == IF x < W16 THEN x ELSE Fold((x % W16) + (x \div W16))

Verifies(hdr) == Fold(SumWords(hdr, Len(hdr) \div 2)) = W16 - 1

\* the checksum a full computation puts in the field: the complement of the
\* folded sum of all the other words
FullChecksum(hdr) ==
    (W16 - 1) - Fold(SumWords(hdr, Len(hdr) \div 2) - Word(hdr, IPH_CHECK \div 2))

(***************************************************************************)
(* Packets.                                                                *)
(***************************************************************************)
Ipv4Header(tos, tot_len, id, check) ==
    <<69, tos, tot_len \div 256, tot_len % 256, id \div 256, id % 256, 64, 0,
      64, 6, check \div 256, check % 256, 192, 168, 0, 1, 192, 168, 0, 199>>

\* the total length that makes a header with these fields verify
LenFor(tos, id, check) ==
    (W16 - 1) - Fold(SumWords(Ipv4Header(tos, 0, id, check), IPHDR_LEN \div 2))

PktTos == {0, 1, 184, 187}
IdVals == {0, 1, 2048, 65535}
CheckVals == {0, 32768, 65534, 65535}

Ipv4Hdrs ==
    {Ipv4Header(tos, LenFor(tos, id, ck), id, ck) :
        tos \in PktTos, id \in IdVals, ck \in CheckVals}

Ipv6Header ==
    [i \in 1 .. IPV6HDR_LEN |->
        IF i = 1 THEN 96 ELSE IF i = 6 THEN 20 ELSE IF i = 7 THEN 6
        ELSE IF i = 8 THEN 64 ELSE IF i = 9 \/ i = 25 THEN 254
        ELSE IF i = 10 \/ i = 26 THEN 128 ELSE IF i = 24 THEN 1
        ELSE IF i = 40 THEN 2 ELSE 0]

ArpHeader == <<0, 1, 8, 0, 6, 4, 0, 1, 2, 0, 0, 0, 0, 1, 192, 168, 0, 1,
               0, 0, 0, 0, 0, 0, 192, 168, 0, 199>>

Pkt(proto, len, cow_fails, hdr) ==
    [protocol |-> proto, network_offset |-> 14, len |-> len,
     cow_fails |-> cow_fails, hdr |-> hdr]

\* IPv4 packets whose header is accessible; IPv4 packets too short to pull
\* the header or whose header cannot be made writable; IPv6; ARP
Packets ==
    {Pkt(ETH_P_IP, 60, FALSE, h) : h \in Ipv4Hdrs}
    \cup {Pkt(ETH_P_IP, l, c, Ipv4Header(tos, LenFor(tos, 65535, 65534), 65535, 65534)) :
            tos \in {0, 187}, l \in {20, 60}, c \in BOOLEAN}
    \cup {Pkt(ETH_P_IPV6, l, c, Ipv6Header) : l \in {40, 74}, c \in BOOLEAN}
    \cup {Pkt(2054, 42, FALSE, ArpHeader)}

\* queue delays: direct, normalized, saturated, top of the u32 range
PktDelays ==
    {u32(n) : n \in {0, 1, 255, 256, 1000, 4177919, 4177920}} \cup {U32Max}

PktCounters == {0, 100, 65535}

InitPkt ==
    /\ CodecIdle
    /\ testbed \in [drops_ecn : PktCounters, drops_nonecn : PktCounters]
    /\ last = NoCall
    /\ prev = NoCall
    /\ owed = [ecn |-> 0, nonecn |-> 0]
    /\ heavy = "ecn"
    /\ ncalls = 0
    /\ skb \in Packets
    /\ ppc = "queued"
    /\ inj = NoInj
    /\ host_le \in BOOLEAN
    /\ npkts = 1

AddMetrics ==
    /\ ppc = "queued"
    /\ \E q \in PktDelays :
        \E r \in {testbed_add_metrics(skb, testbed, q, host_le)} :
            /\ skb' = r.skb
            /\ testbed' = r.testbed
            /\ inj' = [skb |-> skb, testbed |-> testbed, qdelay_us |-> q]
    /\ ppc' = "sent"
    /\ UNCHANGED <<last, prev, owed, heavy, ncalls, host_le, npkts, codecVars>>

Dequeue ==
    /\ ppc = "sent"
    /\ npkts < MaxPkts
    /\ \E p \in Packets : skb' = p
    /\ ppc' = "queued"
    /\ inj' = NoInj
    /\ npkts' = npkts + 1
    /\ UNCHANGED <<testbed, last, prev, owed, heavy, ncalls, host_le, codecVars>>

NextPkt == AddMetrics \/ Dequeue

SpecPkt == InitPkt /\ [][NextPkt]_vars

\* the call reached testbed_add_metrics_ipv4: an IPv4 packet whose header
\* could be pulled and made writable
Embedded ==
    /\ ppc = "sent"
    /\ inj.skb.protocol = ETH_P_IP
    /\ inj.skb.len >= inj.skb.network_offset + IPHDR_LEN
    /\ ~inj.skb.cow_fails

\* the identification and checksum fields as they are on the wire
WireId(hdr) == Word(hdr, IPH_ID \div 2)
WireCheck(hdr) == Word(hdr, IPH_CHECK \div 2)

\* testbed_add_metrics has returned
Called == ppc = "sent" /\ inj.skb # NoSkb

\* C1: when the header verified before the call, the sum recomputed over the
\* full header after the identification and checksum fields were written
\* still folds to 0xFFFF.
C1_ChecksumVerifies ==
    (Embedded /\ Verifies(inj.skb.hdr)) => Verifies(skb.hdr)

\* a header with identification 0 and checksum 0 got identification 63994
\* (31 saturated drops, delay codeword 506): the subtraction borrowed and
\* the carry adjustment left 65535 - 63994
C1_Witness ==
    /\ Embedded
    /\ Verifies(inj.skb.hdr)
    /\ WireId(inj.skb.hdr) = 0
    /\ WireCheck(inj.skb.hdr) = 0
    /\ WireId(skb.hdr) = 63994
    /\ WireCheck(skb.hdr) = 1541

\* C2: the identification written is delay codeword | drop codeword << 11:
\* its low 11 bits are int2fl of the queue delay under (7,4), its high 5
\* bits the (2,3) codeword of the counter the tos byte selects; the delay
\* codeword is below 2^11 and the drop codeword below 2^5.
C2_IdPacksCodewords ==
    Embedded =>
        LET dcode == ToNat(int2fl(inj.qdelay_us, QDELAY_M, QDELAY_E).fl)
            c == Counter(inj.testbed, TosClass(inj.skb.hdr[IPH_TOS + 1]))
            drops == ToNat(int2fl(u32(c), DROPS_M, DROPS_E).fl)
        IN  /\ dcode < 2 ^ 11
            /\ drops < 2 ^ 5
            /\ WireId(skb.hdr) = dcode + (2 ^ 11) * drops
            /\ WireId(skb.hdr) % (2 ^ 11) = dcode
            /\ WireId(skb.hdr) \div (2 ^ 11) = drops

\* a delay of 1000 (codeword 506) and 100 ECN drops (codeword 22) were
\* embedded
C2_Witness ==
    /\ Embedded
    /\ inj.qdelay_us = u32(1000)
    /\ TosClass(inj.skb.hdr[IPH_TOS + 1]) = "ecn"
    /\ inj.testbed.drops_ecn = 100
    /\ WireId(skb.hdr) = 22 * 2048 + 506

\* C6: for an IPv6 packet, a packet of another protocol and an IPv4 packet
\* whose header cannot be pulled or made writable, the call leaves every
\* header byte and both drop counters unchanged.
C6_NoOpUnlessIpv4 ==
    (Called /\ ~Embedded) => (skb = inj.skb /\ testbed = inj.testbed)

\* an IPv4 packet of the ECN class whose header could not be made writable
\* went through while 100 ECN drops were pending
C6_Witness ==
    /\ Called
    /\ inj.skb.protocol = ETH_P_IP
    /\ inj.skb.cow_fails
    /\ inj.skb.len >= inj.skb.network_offset + IPHDR_LEN
    /\ TosClass(inj.skb.hdr[IPH_TOS + 1]) = "ecn"
    /\ inj.testbed.drops_ecn = 100
    /\ testbed.drops_ecn = 100

\* C7: for every header whose checksum verified before the call, the
\* checksum field written equals the complement of the folded sum of all
\* the other header words, new identification included (what a full
\* recomputation would write).
C7_IncrementalEqualsFull ==
    (Embedded /\ Verifies(inj.skb.hdr)) =>
        WireCheck(skb.hdr) = FullChecksum(skb.hdr)

====
